---- MODULE Spec2Model ----
(***************************************************************************)
(* EduVerify (src/script.js): an in-memory hash-linked ledger of           *)
(* certificate records (classes Block and Blockchain) and the three        *)
(* button handlers that drive it (issue, verify chain, verify              *)
(* certificate).                                                           *)
(*                                                                         *)
(* Strings are TLA+ strings and + on strings is \o, so the preimage of a   *)
(* block hash is the same concatenation the code builds.  CryptoJS.SHA256  *)
(* is modelled as a collision-free digest: an injective wrapping of its    *)
(* preimage.  Positions are 0-based as in the code; At(c, i) reads c[i].   *)
(***************************************************************************)
EXTENDS Integers, Sequences, FiniteSets, TLC

(* ------------------------------ bounds --------------------------------- *)

\* largest number of blocks the chain may hold (genesis included)
MaxChain == 3
\* largest number of issue handlers suspended at `await hashFile` at once
MaxPendingIssue == 2
\* largest number of verify handlers suspended at `await hashFile` at once
MaxPendingVerify == 1
\* last instant of the wall clock
MaxClock == 1
\* longest text typed into the block number field
MaxDigits == 2
\* number of in-place edits the holder of the in-memory chain may make
MaxTampers == 1

(* ------------------------------ inputs --------------------------------- *)

\* value of an empty text input, and of files[0] when nothing is uploaded
Empty == ""
NoFile == "undefined"
Undefined == "undefined"

StudentNames == {"Ann"}
CourseNames == {"CS"}
InstitutionNames == {"MIT"}
\* the uploaded files, each named by its byte content
Files == {"pdfA", "pdfB"}

\* the characters a user may type into the block number field
KeyChars == {"0", "1", "2", "-", "x"}

(* ---------------------------- conversions ------------------------------ *)

\* CryptoJS.SHA256(s).toString(), collision-free
SHA256(s) == "#" \o s \o ";"

\* new Date().toISOString() at instant t: fixed width
ToISOString(t) ==
    "2026-11-04T00:00:00.0" \o (IF t < 10 THEN "0" ELSE "") \o ToString(t) \o "Z"

\* new Date().toLocaleDateString() at instant t: the day t falls in
ToLocaleDateString(t) == "11/" \o ToString(4 + (t \div 2)) \o "/2026"

\* A payload is a JavaScript string ([str |-> s]) or the certificate object.
IsStringData(d) == DOMAIN d = {"str"}

\* JSON.stringify(data): a quoted string, or the object's own properties in
\* insertion order (student, course, institution, issueDate, fileHash).  No
\* string of the model holds a character that JSON.stringify escapes.
JSONstringify(d) ==
    IF IsStringData(d)
    THEN "\"" \o d.str \o "\""
    ELSE "{\"student\":\"" \o d.student \o "\",\"course\":\"" \o d.course
         \o "\",\"institution\":\"" \o d.institution
         \o "\",\"issueDate\":\"" \o d.issueDate
         \o "\",\"fileHash\":\"" \o d.fileHash \o "\"}"

\* hashFile's value once reader.onload has fired
HashOfFile(file) == SHA256(file)

NaN == -1000

DigitValue(ch) == CASE ch = "0" -> 0 [] ch = "1" -> 1 [] ch = "2" -> 2 [] OTHER -> -1

RECURSIVE ParseDigits(_, _, _, _)
\* the longest run of digits of s from position k, read in the given radix;
\* NaN when there is none
ParseDigits(s, k, acc, radix) ==
    IF k > Len(s) \/ DigitValue(s[k]) < 0
    THEN acc
    ELSE ParseDigits(s, k + 1,
                     (IF acc = NaN THEN 0 ELSE acc) * radix + DigitValue(s[k]), radix)

\* parseInt(text): optional sign, then digits; a "0x" prefix selects radix 16,
\* otherwise radix 10; trailing text is ignored
ParseInt(s) ==
    LET neg == Len(s) >= 1 /\ s[1] = "-"
        k0 == IF neg THEN 2 ELSE 1
        hex == Len(s) >= k0 + 1 /\ s[k0] = "0" /\ s[k0 + 1] = "x"
        n == IF hex THEN ParseDigits(s, k0 + 2, NaN, 16)
                    ELSE ParseDigits(s, k0, NaN, 10)
    IN  IF n = NaN THEN NaN ELSE IF neg THEN 0 - n ELSE n

IsNaN(n) == n = NaN

RECURSIVE SeqsUpTo(_, _)
SeqsUpTo(S, n) ==
    IF n = 0 THEN {<<>>}
    ELSE LET shorter == SeqsUpTo(S, n - 1)
         IN  shorter \cup {Append(s, x) : s \in shorter, x \in S}

\* what the block number field may hold when the button is clicked
BlockNumberTexts == SeqsUpTo(KeyChars, MaxDigits)

\* the values of parseInt(blockNumber.value) over those texts
ParsedBlockNumbers == {ParseInt(text) : text \in BlockNumberTexts}

\* What the issue form may hold when the button is clicked.  Its fields are
\* written by the user at will and emptied by a completed issuance, and are
\* read only at a click, so a click may find any of these values.
IssueForms ==
    [studentName : StudentNames \cup {Empty},
     courseName : CourseNames \cup {Empty},
     institutionName : InstitutionNames \cup {Empty},
     pdfFile : Files \cup {NoFile}]

(* ------------------------------- Block --------------------------------- *)

\* calculateHash with the payload left out of the preimage
CalculateHash_NoData(b) ==
    SHA256(ToString(b.index) \o b.previousHash \o b.timestamp)

\* Block.calculateHash
CalculateHash(b) ==
    SHA256(ToString(b.index) \o b.previousHash \o b.timestamp \o JSONstringify(b.data))

\* new Block(index, timestamp, data, previousHash)
NewBlock(index, timestamp, data, previousHash) ==
    LET fields == [index |-> index, timestamp |-> timestamp, data |-> data,
                   previousHash |-> previousHash, hash |-> ""]
    IN  [fields EXCEPT !.hash = CalculateHash(fields)]

(* ----------------------------- Blockchain ------------------------------ *)

At(c, i) == c[i + 1]

\* createGenesisBlock without its fourth argument: previousHash defaults to ''
CreateGenesisBlock_NoSentinel(t) ==
    NewBlock(0, ToISOString(t), [str |-> "Genesis Block"], "")

\* Blockchain.createGenesisBlock at instant t
CreateGenesisBlock(t) == NewBlock(0, ToISOString(t), [str |-> "Genesis Block"], "0")

\* Blockchain.getLatestBlock
GetLatestBlock(c) == At(c, Len(c) - 1)

\* addBlock that pushes the block as it was constructed
AddBlock_NoLink(c, newBlock) == Append(c, newBlock)

\* addBlock that links the block but keeps the hash the constructor computed
AddBlock_StaleHash(c, newBlock) ==
    Append(c, [newBlock EXCEPT !.previousHash = GetLatestBlock(c).hash])

\* addBlock that stores the block over the latest one instead of after it
AddBlock_Overwrite(c, newBlock) ==
    LET linked == [newBlock EXCEPT !.previousHash = GetLatestBlock(c).hash]
        hashed == [linked EXCEPT !.hash = CalculateHash(linked)]
    IN  [c EXCEPT ![Len(c)] = hashed]

\* addBlock with unshift written for push: the block goes in front
AddBlock_Unshift(c, newBlock) ==
    LET linked == [newBlock EXCEPT !.previousHash = GetLatestBlock(c).hash]
        hashed == [linked EXCEPT !.hash = CalculateHash(linked)]
    IN  <<hashed>> \o c

\* Blockchain.addBlock
AddBlock(c, newBlock) ==
    LET linked == [newBlock EXCEPT !.previousHash = GetLatestBlock(c).hash]
        hashed == [linked EXCEPT !.hash = CalculateHash(linked)]
    IN  Append(c, hashed)

RECURSIVE IsValidFrom_NoLinkCheck(_, _)
\* the loop of isChainValid without its comparison of previousHash
IsValidFrom_NoLinkCheck(c, i) ==
    IF i >= Len(c) THEN TRUE
    ELSE IF At(c, i).hash # CalculateHash(At(c, i)) THEN FALSE
    ELSE IsValidFrom_NoLinkCheck(c, i + 1)

RECURSIVE IsValidFrom_PrevOfPrev(_, _)
\* the loop of isChainValid comparing with previousBlock.previousHash
IsValidFrom_PrevOfPrev(c, i) ==
    IF i >= Len(c) THEN TRUE
    ELSE IF At(c, i).hash # CalculateHash(At(c, i)) THEN FALSE
    ELSE IF At(c, i).previousHash # At(c, i - 1).previousHash THEN FALSE
    ELSE IsValidFrom_PrevOfPrev(c, i + 1)

RECURSIVE IsValidFrom_HashEquality(_, _)
\* the loop of isChainValid with === written for !== in its first comparison
IsValidFrom_HashEquality(c, i) ==
    IF i >= Len(c) THEN TRUE
    ELSE IF At(c, i).hash = CalculateHash(At(c, i)) THEN FALSE
    ELSE IF At(c, i).previousHash # At(c, i - 1).hash THEN FALSE
    ELSE IsValidFrom_HashEquality(c, i + 1)

RECURSIVE IsValidFrom(_, _)
\* the loop of isChainValid from index i on
IsValidFrom(c, i) ==
    IF i >= Len(c) THEN TRUE
    ELSE IF At(c, i).hash # CalculateHash(At(c, i)) THEN FALSE
    ELSE IF At(c, i).previousHash # At(c, i - 1).hash THEN FALSE
    ELSE IsValidFrom(c, i + 1)

\* isChainValid that recomputes the genesis block's hash as well
IsChainValid_CheckGenesis(c) ==
    At(c, 0).hash = CalculateHash(At(c, 0)) /\ IsValidFrom(c, 1)

\* Blockchain.isChainValid
IsChainValid(c) == IsValidFrom(c, 1)

(* ------------------------------- state --------------------------------- *)

VARIABLES
    chain,            \* certChain.chain
    now,              \* the wall clock new Date() reads
    issuePending,     \* issue handlers suspended at `await hashFile(pdfFile)`
    verifyPending,    \* verify handlers suspended at `await hashFile(pdfToVerify)`
    chainStatus,      \* text of #chainStatus
    singleCertStatus, \* text of #singleCertStatus
    alertMsg,         \* the last alert() shown
    blockchainView,   \* the blocks rendered in #blockchain
    tamperLog,        \* edits made to the chain from outside the handlers
    issueLog          \* one entry per issue handler that resumed with a file
                      \* hash: its place among the handlers then suspended
                      \* (1 = the one that was started first)

vars == <<chain, now, issuePending, verifyPending, chainStatus,
          singleCertStatus, alertMsg, blockchainView, tamperLog, issueLog>>

\* the texts of the alerts and of the two status lines (their emoji left out)
AlertFillFields == "Please fill in all fields and upload a certificate PDF."
AlertProcessFile == "Could not process the file. Please try again."
AlertSpecify == "Please specify a block number and upload the PDF to verify."
AlertInvalidBlock == "Invalid block number. Please enter a valid index from the chain."
AlertNotVerified == "Could not verify the certificate."
StatusValid == "Status: The entire chain is VALID."
StatusInvalid == "Status: The entire chain is INVALID."
StatusAuthentic == "Status: Certificate is AUTHENTIC. The hashes match."
StatusTampered == "Status: TAMPERED! The certificate does not match the blockchain record."

\* displayBlockchain
DisplayBlockchain(c) == c

RemoveAt(s, k) == SubSeq(s, 1, k - 1) \o SubSeq(s, k + 1, Len(s))

\* DOMContentLoaded: new Blockchain(), then the initial display
Init ==
    /\ now = 0
    /\ chain = <<CreateGenesisBlock(0)>>
    /\ issuePending = <<>>
    /\ verifyPending = <<>>
    /\ chainStatus = ""
    /\ singleCertStatus = ""
    /\ alertMsg = ""
    /\ blockchainView = DisplayBlockchain(chain)
    /\ tamperLog = <<>>
    /\ issueLog = <<>>

(* ----------------------------- environment ----------------------------- *)

\* time passes
Tick ==
    /\ now < MaxClock
    /\ now' = now + 1
    /\ UNCHANGED <<chain, issuePending, verifyPending, chainStatus,
                   singleCertStatus, alertMsg, blockchainView, tamperLog, issueLog>>

(* --------------------------- issue handler ----------------------------- *)

FormIncomplete(f) ==
    \/ f.studentName = Empty
    \/ f.courseName = Empty
    \/ f.institutionName = Empty
    \/ f.pdfFile = NoFile

\* click on issueBtn with a field missing
IssueClickRejected ==
    /\ {f \in IssueForms : FormIncomplete(f)} # {}
    /\ alertMsg' = AlertFillFields
    /\ UNCHANGED <<chain, now, issuePending, verifyPending, chainStatus,
                   singleCertStatus, blockchainView, tamperLog, issueLog>>

\* click on issueBtn with the form filled: runs up to `await hashFile(pdfFile)`
IssueClickAccepted ==
    /\ Len(issuePending) < MaxPendingIssue
    /\ Len(chain) + Len(issuePending) < MaxChain
    /\ \E f \in IssueForms :
          /\ ~FormIncomplete(f)
          /\ issuePending' = Append(issuePending, f)
    /\ UNCHANGED <<chain, now, verifyPending, chainStatus,
                   singleCertStatus, alertMsg, blockchainView, tamperLog, issueLog>>

\* the certificateData object of a resumed issue handler
CertificateData(req, t) ==
    [student |-> req.studentName, course |-> req.courseName,
     institution |-> req.institutionName,
     issueDate |-> ToLocaleDateString(t),
     fileHash |-> HashOfFile(req.pdfFile)]

\* the block constructed with the latest block's own index (+ 1 forgotten)
ConstructedBlock_SameIndex(c, req, t1, t2) ==
    NewBlock(GetLatestBlock(c).index, ToISOString(t2),
             CertificateData(req, t1), "")

\* the block a resumed issue handler constructs (previousHash defaults to '');
\* t1 and t2 are the two readings of the clock
ConstructedBlock(c, req, t1, t2) ==
    NewBlock(GetLatestBlock(c).index + 1, ToISOString(t2),
             CertificateData(req, t1), "")

\* the chain after a resumed issue handler that calls addBlock twice
IssueAppend_Twice(c, req, t1, t2) ==
    AddBlock(AddBlock(c, ConstructedBlock(c, req, t1, t2)),
             ConstructedBlock(c, req, t1, t2))

\* the chain after a resumed issue handler has built and added its block
IssueAppend(c, req, t1, t2) == AddBlock(c, ConstructedBlock(c, req, t1, t2))

\* hashFile resolved: the rest of the try block of the issue handler
IssueHashResolved ==
    \E k \in 1..Len(issuePending) :
    \E t2 \in {now, now + 1} :
       /\ t2 <= MaxClock
       /\ chain' = IssueAppend(chain, issuePending[k], now, t2)
       /\ now' = t2
       /\ blockchainView' = DisplayBlockchain(chain')
       /\ issuePending' = RemoveAt(issuePending, k)
       /\ issueLog' = Append(issueLog, k)
       /\ UNCHANGED <<verifyPending, chainStatus, singleCertStatus, alertMsg,
                      tamperLog>>

\* an issue handler that pushes its block before the file hash is known and
\* does not take it back when hashFile rejects
IssueHashRejected_PartialAppend ==
    \E k \in 1..Len(issuePending) :
       /\ alertMsg' = AlertProcessFile
       /\ chain' = Append(chain,
             NewBlock(GetLatestBlock(chain).index + 1, ToISOString(now),
                      [student |-> issuePending[k].studentName,
                       course |-> issuePending[k].courseName,
                       institution |-> issuePending[k].institutionName,
                       issueDate |-> ToLocaleDateString(now),
                       fileHash |-> Undefined], ""))
       /\ issuePending' = RemoveAt(issuePending, k)
       /\ UNCHANGED <<now, verifyPending, chainStatus,
                      singleCertStatus, blockchainView, tamperLog, issueLog>>

\* hashFile rejected (reader.onerror): the catch block of the issue handler
IssueHashRejected ==
    \E k \in 1..Len(issuePending) :
       /\ alertMsg' = AlertProcessFile
       /\ issuePending' = RemoveAt(issuePending, k)
       /\ UNCHANGED <<chain, now, verifyPending, chainStatus,
                      singleCertStatus, blockchainView, tamperLog, issueLog>>

(* ------------------------ verify chain handler ------------------------- *)

\* a verify-chain click whose loop assigns the recomputed hash to each block
\* it visits (= written for !==)
VerifyChainClick_Repairing ==
    /\ chain' = [i \in 1..Len(chain) |->
                    IF i = 1 THEN chain[i]
                    ELSE [chain[i] EXCEPT !.hash = CalculateHash(chain[i])]]
    /\ chainStatus' = IF IsChainValid(chain) THEN StatusValid ELSE StatusInvalid
    /\ UNCHANGED <<now, issuePending, verifyPending,
                   singleCertStatus, alertMsg, blockchainView, tamperLog, issueLog>>

\* click on verifyChainBtn
VerifyChainClick ==
    /\ chainStatus' = IF IsChainValid(chain) THEN StatusValid ELSE StatusInvalid
    /\ UNCHANGED <<chain, now, issuePending, verifyPending,
                   singleCertStatus, alertMsg, blockchainView, tamperLog, issueLog>>

(* --------------------- verify certificate handler ---------------------- *)

\* click on verifyCertBtn with no number or no file
VerifyCertClickMissing ==
    /\ {in \in ParsedBlockNumbers \X (Files \cup {NoFile}) :
            IsNaN(in[1]) \/ in[2] = NoFile} # {}
    /\ alertMsg' = AlertSpecify
    /\ UNCHANGED <<chain, now, issuePending, verifyPending, chainStatus,
                   singleCertStatus, blockchainView, tamperLog, issueLog>>

\* the range check with < 0 written for <= 0
OutOfRange_AllowsGenesis(blockNumber, c) == blockNumber < 0 \/ blockNumber >= Len(c)

OutOfRange(blockNumber, c) == blockNumber <= 0 \/ blockNumber >= Len(c)

\* click on verifyCertBtn with a block number outside the chain
VerifyCertClickOutOfRange ==
    /\ {in \in ParsedBlockNumbers \X Files :
            ~IsNaN(in[1]) /\ OutOfRange(in[1], chain)} # {}
    /\ alertMsg' = AlertInvalidBlock
    /\ UNCHANGED <<chain, now, issuePending, verifyPending, chainStatus,
                   singleCertStatus, blockchainView, tamperLog, issueLog>>

\* click on verifyCertBtn accepted: runs up to `await hashFile(pdfToVerify)`
VerifyCertClickAccepted ==
    /\ Len(verifyPending) < MaxPendingVerify
    /\ \E blockNumber \in ParsedBlockNumbers, file \in Files :
          /\ ~IsNaN(blockNumber)
          /\ ~OutOfRange(blockNumber, chain)
          /\ verifyPending' = Append(verifyPending,
                 [blockNumber |-> blockNumber, pdfToVerify |-> file,
                  lengthChecked |-> Len(chain)])
    /\ UNCHANGED <<chain, now, issuePending, chainStatus,
                   singleCertStatus, alertMsg, blockchainView, tamperLog, issueLog>>

\* the block's own hash read in place of the file hash it stores
StoredHash_BlockHash(c, blockNumber) == At(c, blockNumber).hash

\* blockToVerify.data.fileHash
StoredHash(c, blockNumber) ==
    IF "fileHash" \in DOMAIN At(c, blockNumber).data
    THEN At(c, blockNumber).data.fileHash
    ELSE Undefined

\* the verdict written to #singleCertStatus
Verdict(c, req) ==
    IF HashOfFile(req.pdfToVerify) = StoredHash(c, req.blockNumber)
    THEN StatusAuthentic
    ELSE StatusTampered

\* hashFile resolved: the rest of the try block of the verify handler
VerifyCertHashResolved ==
    \E k \in 1..Len(verifyPending) :
       /\ IF verifyPending[k].blockNumber < Len(chain)
          THEN /\ singleCertStatus' = Verdict(chain, verifyPending[k])
               /\ UNCHANGED alertMsg
          ELSE \* certChain.chain[blockNumber] is undefined: TypeError, caught
               /\ alertMsg' = AlertNotVerified
               /\ UNCHANGED singleCertStatus
       /\ verifyPending' = RemoveAt(verifyPending, k)
       /\ UNCHANGED <<chain, now, issuePending, chainStatus,
                      blockchainView, tamperLog, issueLog>>

\* hashFile rejected: the catch block of the verify handler
VerifyCertHashRejected ==
    \E k \in 1..Len(verifyPending) :
       /\ alertMsg' = AlertNotVerified
       /\ verifyPending' = RemoveAt(verifyPending, k)
       /\ UNCHANGED <<chain, now, issuePending, chainStatus,
                      singleCertStatus, blockchainView, tamperLog, issueLog>>

(* --------------------------- specification ----------------------------- *)

Next ==
    \/ Tick
    \/ IssueClickRejected
    \/ IssueClickAccepted
    \/ IssueHashResolved
    \/ IssueHashRejected
    \/ VerifyChainClick
    \/ VerifyCertClickMissing
    \/ VerifyCertClickOutOfRange
    \/ VerifyCertClickAccepted
    \/ VerifyCertHashResolved
    \/ VerifyCertHashRejected

Spec == Init /\ [][Next]_vars

(* --------------------- edits from outside the handlers ----------------- *)
(* The chain is a plain array of plain objects: whoever holds it can edit  *)
(* it without going through addBlock.  These actions are not code of the   *)
(* page; they are the edits isChainValid exists to detect.                 *)

\* values an edited field may be given
TamperIndexes == 0..MaxChain
TamperTimestamps == {ToISOString(t) : t \in 0..MaxClock}
TamperHashes(c) == {"0"} \cup {c[j].hash : j \in 1..Len(c)}
TamperData(d) ==
    IF IsStringData(d)
    THEN {[str |-> "Genesis"]}
    ELSE {[d EXCEPT !.fileHash = HashOfFile(f)] : f \in Files}
         \cup {[d EXCEPT !.student = "Eve"]}

\* chain[i].<field> = v, with no recomputation of chain[i].hash
EditField(c, i, field, v) ==
    [c EXCEPT ![i + 1] =
        CASE field = "index" -> [@ EXCEPT !.index = v]
          [] field = "timestamp" -> [@ EXCEPT !.timestamp = v]
          [] field = "previousHash" -> [@ EXCEPT !.previousHash = v]
          [] field = "data" -> [@ EXCEPT !.data = v]]

FieldValues(c, i, field) ==
    CASE field = "index" -> TamperIndexes \ {At(c, i).index}
      [] field = "timestamp" -> TamperTimestamps \ {At(c, i).timestamp}
      [] field = "previousHash" -> TamperHashes(c) \ {At(c, i).previousHash}
      [] field = "data" -> TamperData(At(c, i).data) \ {At(c, i).data}

HashedFields == {"index", "timestamp", "previousHash", "data"}

\* one hashed field of one record is overwritten in place
TamperField ==
    /\ Len(tamperLog) < MaxTampers
    /\ \E i \in 0..(Len(chain) - 1), field \in HashedFields :
       \E v \in FieldValues(chain, i, field) :
          /\ chain' = EditField(chain, i, field, v)
          /\ tamperLog' = Append(tamperLog,
                [kind |-> "field", pos |-> i,
                 wasValid |-> IsChainValid(chain)])
    /\ UNCHANGED <<now, issuePending, verifyPending, chainStatus,
                   singleCertStatus, alertMsg, blockchainView, issueLog>>

\* chain.splice(i, 1): a record after the genesis block is taken out
TamperRemove ==
    /\ Len(tamperLog) < MaxTampers
    /\ \E i \in 1..(Len(chain) - 1) :
          /\ chain' = RemoveAt(chain, i + 1)
          /\ tamperLog' = Append(tamperLog,
                [kind |-> "remove", pos |-> i,
                 wasValid |-> IsChainValid(chain)])
    /\ UNCHANGED <<now, issuePending, verifyPending, chainStatus,
                   singleCertStatus, alertMsg, blockchainView, issueLog>>

Tamper == TamperField \/ TamperRemove

NextTamper ==
    \/ Tick
    \/ IssueClickRejected
    \/ IssueClickAccepted
    \/ IssueHashResolved
    \/ IssueHashRejected
    \/ VerifyChainClick
    \/ VerifyCertClickMissing
    \/ VerifyCertClickOutOfRange
    \/ VerifyCertClickAccepted
    \/ VerifyCertHashResolved
    \/ VerifyCertHashRejected
    \/ TamperField
    \/ TamperRemove

\* the page together with a holder of the chain who edits it
SpecTamper == Init /\ [][NextTamper]_vars

(* --------------------- rewriting the chain as a whole ------------------ *)
(* Edits that keep every record consistent with itself: a sub-chain        *)
(* regenerated with calculateHash, two records exchanged, the tail cut.    *)

RECURSIVE RelinkFrom(_, _)
\* from index j on: previousHash = the predecessor's hash, hash recomputed
RelinkFrom(c, j) ==
    IF j >= Len(c) THEN c
    ELSE LET linked == [At(c, j) EXCEPT !.previousHash = At(c, j - 1).hash]
             hashed == [linked EXCEPT !.hash = CalculateHash(linked)]
         IN  RelinkFrom([c EXCEPT ![j + 1] = hashed], j + 1)

\* chain[k].data = d, then the chain regenerated from k to its end
Forge(c, k, d) == RelinkFrom([c EXCEPT ![k + 1].data = d], k)

\* chain[i] and chain[j] exchanged
Swap(c, i, j) == [c EXCEPT ![i + 1] = c[j + 1], ![j + 1] = c[i + 1]]

\* chain.length = n
Truncate(c, n) == SubSeq(c, 1, n)

\* the payload of a record after the genesis block is replaced and every
\* hash from there on regenerated
TamperForge ==
    /\ Len(tamperLog) < MaxTampers
    /\ \E k \in 1..(Len(chain) - 1) :
       \E d \in TamperData(At(chain, k).data) \ {At(chain, k).data} :
          /\ chain' = Forge(chain, k, d)
          /\ tamperLog' = Append(tamperLog,
                [kind |-> "forge", pos |-> k,
                 wasValid |-> IsChainValid(chain),
                 statusThen |-> chainStatus])
    /\ UNCHANGED <<now, issuePending, verifyPending, chainStatus,
                   singleCertStatus, alertMsg, blockchainView, issueLog>>

\* two records after the genesis block change places
TamperSwap ==
    /\ Len(tamperLog) < MaxTampers
    /\ \E i, j \in 1..(Len(chain) - 1) :
          /\ i < j
          /\ chain' = Swap(chain, i, j)
          /\ tamperLog' = Append(tamperLog,
                [kind |-> "swap", pos |-> i,
                 wasValid |-> IsChainValid(chain),
                 statusThen |-> chainStatus])
    /\ UNCHANGED <<now, issuePending, verifyPending, chainStatus,
                   singleCertStatus, alertMsg, blockchainView, issueLog>>

\* the last records are dropped; n >= 1 records are kept
TamperTruncate ==
    /\ Len(tamperLog) < MaxTampers
    /\ \E n \in 1..(Len(chain) - 1) :
          /\ chain' = Truncate(chain, n)
          /\ tamperLog' = Append(tamperLog,
                [kind |-> "truncate", pos |-> n,
                 wasValid |-> IsChainValid(chain),
                 statusThen |-> chainStatus])
    /\ UNCHANGED <<now, issuePending, verifyPending, chainStatus,
                   singleCertStatus, alertMsg, blockchainView, issueLog>>

NextRewrite ==
    \/ Tick
    \/ IssueClickRejected
    \/ IssueClickAccepted
    \/ IssueHashResolved
    \/ IssueHashRejected
    \/ VerifyChainClick
    \/ VerifyCertClickMissing
    \/ VerifyCertClickOutOfRange
    \/ VerifyCertClickAccepted
    \/ VerifyCertHashResolved
    \/ VerifyCertHashRejected
    \/ TamperForge
    \/ TamperSwap
    \/ TamperTruncate

\* the page together with a holder of the chain who rewrites it
SpecRewrite == Init /\ [][NextRewrite]_vars

(* ------------------------ addBlock called directly --------------------- *)
(* addBlock is a public method taking a Block: besides the issue handler,  *)
(* any code holding certChain may hand it a block built with any index.    *)

\* certChain.addBlock(new Block(index, timestamp, data)) from outside the
\* issue handler
ApiAddBlock ==
    /\ Len(tamperLog) < MaxTampers
    /\ Len(chain) + Len(issuePending) < MaxChain
    /\ \E index \in 0..(MaxChain + 1), file \in Files :
          /\ chain' = AddBlock(chain,
                NewBlock(index, ToISOString(now),
                         [student |-> "Ann", course |-> "CS",
                          institution |-> "MIT",
                          issueDate |-> ToLocaleDateString(now),
                          fileHash |-> HashOfFile(file)], ""))
          /\ tamperLog' = Append(tamperLog,
                [kind |-> "addBlock", pos |-> index,
                 wasValid |-> IsChainValid(chain)])
    /\ UNCHANGED <<now, issuePending, verifyPending, chainStatus,
                   singleCertStatus, alertMsg, blockchainView, issueLog>>

NextApi ==
    \/ Tick
    \/ IssueClickRejected
    \/ IssueClickAccepted
    \/ IssueHashResolved
    \/ IssueHashRejected
    \/ VerifyChainClick
    \/ VerifyCertClickMissing
    \/ VerifyCertClickOutOfRange
    \/ VerifyCertClickAccepted
    \/ VerifyCertHashResolved
    \/ VerifyCertHashRejected
    \/ ApiAddBlock

\* the page together with a direct caller of addBlock
SpecApi == Init /\ [][NextApi]_vars

(* ======================================================================= *)
(*                               properties                                *)
(* ======================================================================= *)

Positions(c) == 0..(Len(c) - 1)
LastEdit(log) == log[Len(log)]
Edited == Len(tamperLog') = Len(tamperLog) + 1

(* ------------------------------- C1 ------------------------------------ *)

GenesisOnly ==
    /\ Len(chain) = 1
    /\ chain[1].index = 0
    /\ chain[1].previousHash = "0"
    /\ IsChainValid(chain)

\* C1: the ledger as constructed holds exactly one record, whose index is 0
\* and whose previousHash is "0", and isChainValid answers true on it; this
\* is so in the first state and in every state in which nothing has been
\* added yet.
C1_GenesisLedger == GenesisOnly /\ [](Len(chain) <= 1 => GenesisOnly)

\* the fresh ledger has been validated by the button and reported valid
C1_Witness == Len(chain) = 1 /\ issuePending = <<>> /\ chainStatus = StatusValid

(* ------------------------------- C2 ------------------------------------ *)

\* C2: after any number of successful issuances, every record after the
\* genesis block carries its predecessor's hash as previousHash and its own
\* position in the chain as index.
C2_AppendLinkage ==
    \A i \in Positions(chain) \ {0} :
       /\ chain[i + 1].previousHash = chain[i].hash
       /\ chain[i + 1].index = i

\* two issuances have completed
C2_Witness == Len(chain) >= 3 /\ chain[3].index = 2 /\ chain[3].previousHash = chain[2].hash

(* ------------------------------- C3 ------------------------------------ *)

\* C3: with appends only, every record's stored hash equals the hash
\* recomputed from its index, previousHash, timestamp and data, and
\* isChainValid answers true.
C3_SelfConsistent ==
    /\ \A i \in Positions(chain) :
          chain[i + 1].hash =
             SHA256(ToString(chain[i + 1].index) \o chain[i + 1].previousHash
                    \o chain[i + 1].timestamp \o JSONstringify(chain[i + 1].data))
    /\ IsChainValid(chain)

\* a chain of three records has been validated by the button
C3_Witness == Len(chain) >= 3 /\ chainStatus = StatusValid /\ IsChainValid(chain)

(* ------------------------------- C4 ------------------------------------ *)

\* C4: when a verification of block p with file content f completes and p is
\* a position after the genesis block, the status shown is AUTHENTIC if the
\* hash of f equals chain[p].data.fileHash and TAMPERED otherwise, whatever
\* the rest of the chain is, valid or not.
C4_VerdictByFingerprint ==
    [][VerifyCertHashResolved =>
         \E k \in 1..Len(verifyPending) :
            LET p == verifyPending[k].blockNumber
                f == SHA256(verifyPending[k].pdfToVerify)
            IN  /\ verifyPending' = RemoveAt(verifyPending, k)
                /\ (0 < p /\ p < Len(chain)) =>
                      singleCertStatus' =
                         IF f = chain[p + 1].data.fileHash
                         THEN StatusAuthentic ELSE StatusTampered]_vars

\* a certificate is reported authentic on a chain isChainValid rejects
C4_Witness ==
    /\ singleCertStatus = StatusAuthentic
    /\ ~IsChainValid(chain)
    /\ chainStatus = StatusInvalid

(* ------------------------------- C5 ------------------------------------ *)

\* C5: on a valid chain, overwriting one hashed field (index, timestamp,
\* previousHash or data) of a record after the genesis block with a
\* different value, without recomputing its hash, makes isChainValid answer
\* false.
C5_FieldEditDetected ==
    [][(/\ Edited
        /\ LastEdit(tamperLog').kind = "field"
        /\ LastEdit(tamperLog').pos >= 1
        /\ IsChainValid(chain))
       => ~IsChainValid(chain')]_vars

\* the stated instance: three records, chain[1].data overwritten, and the
\* button has reported the chain invalid
C5_Witness ==
    /\ Len(chain) = 3
    /\ Len(tamperLog) = 1
    /\ tamperLog[1] = [kind |-> "field", pos |-> 1, wasValid |-> TRUE]
    /\ chain[2].data.student = "Eve"
    /\ chainStatus = StatusInvalid

(* ------------------------------- C6 ------------------------------------ *)

\* C6: on a valid chain of at least three records, taking out an interior
\* record makes isChainValid answer false: the record that moves into its
\* place carries a previousHash that is not its new predecessor's hash.
C6_RemovalDetected ==
    [][(/\ Edited
        /\ LastEdit(tamperLog').kind = "remove"
        /\ LastEdit(tamperLog').pos < Len(chain')
        /\ IsChainValid(chain))
       => LET i == LastEdit(tamperLog').pos
          IN  /\ ~IsChainValid(chain')
              /\ chain'[i + 1].previousHash # chain'[i].hash]_vars

\* the stated instance: chain[1] taken out of three records, and the button
\* has reported the chain invalid
C6_Witness ==
    /\ Len(chain) = 2
    /\ Len(tamperLog) = 1
    /\ tamperLog[1] = [kind |-> "remove", pos |-> 1, wasValid |-> TRUE]
    /\ chainStatus = StatusInvalid

(* ------------------------------- C7 ------------------------------------ *)

\* C7: a verification whose block number is <= 0 or >= chain.length, asked
\* with a file to verify, is refused with the invalid-block-number alert: the
\* status shown, the handlers awaiting a file hash and the chain stay as
\* they were, so no handler ever holds such a block number.
C7_OutOfRangeRejected ==
    /\ [](\A k \in 1..Len(verifyPending) :
             /\ verifyPending[k].blockNumber > 0
             /\ verifyPending[k].blockNumber < Len(chain))
    /\ [][VerifyCertClickOutOfRange =>
            /\ alertMsg' = AlertInvalidBlock
            /\ UNCHANGED <<chain, singleCertStatus, verifyPending>>]_vars

\* a verification has been refused while no verdict was ever shown
C7_Witness ==
    /\ alertMsg = AlertInvalidBlock
    /\ singleCertStatus = ""
    /\ verifyPending = <<>>
    /\ Len(chain) >= 2

(* ------------------------------- C8 ------------------------------------ *)

\* C8: a click on the verify-chain button leaves the chain as it was, and
\* the answer it shows is the answer isChainValid gives on the chain it
\* leaves behind, so a second click in a row shows the same; this holds on
\* valid and on edited chains.
C8_ValidateReadOnly ==
    [][VerifyChainClick =>
         /\ chain' = chain
         /\ chainStatus' = IF IsChainValid(chain') THEN StatusValid ELSE StatusInvalid]_vars

\* an edited chain has been reported invalid and is still the edited chain
C8_Witness ==
    /\ chainStatus = StatusInvalid
    /\ ~IsChainValid(chain)
    /\ Len(tamperLog) >= 1
    /\ Len(chain) >= 2

(* ------------------------------- C9 ------------------------------------ *)

\* the chain d is the chain c with one complete, linked record added
OneRecordAdded(c, d) ==
    /\ Len(d) = Len(c) + 1
    /\ SubSeq(d, 1, Len(c)) = c
    /\ d[Len(d)].previousHash = c[Len(c)].hash
    /\ d[Len(d)].index = c[Len(c)].index + 1
    /\ d[Len(d)].hash =
          SHA256(ToString(d[Len(d)].index) \o d[Len(d)].previousHash
                 \o d[Len(d)].timestamp \o JSONstringify(d[Len(d)].data))

\* C9: an issuance refused for a missing input, or one whose file could not
\* be hashed, leaves the chain exactly as it was; every step of the page
\* either leaves the chain as it was or adds one complete, linked record.
C9_FailedIssueNoChange ==
    /\ [][(IssueClickRejected \/ IssueHashRejected) => chain' = chain]_vars
    /\ [][chain' = chain \/ OneRecordAdded(chain, chain')]_vars

\* an issuance has failed on its file after another had succeeded
C9_Witness ==
    /\ alertMsg = AlertProcessFile
    /\ Len(chain) = 2
    /\ issuePending = <<>>

(* ------------------------------- C10 ----------------------------------- *)

\* C10: over every run of the three handlers the chain is never empty, and
\* each step leaves it as it was or puts one record after the records it
\* held, which keep all their fields; so getLatestBlock always has a record
\* to return.
C10_AppendOnly ==
    /\ [](Len(chain) >= 1 /\ GetLatestBlock(chain) = chain[Len(chain)])
    /\ [][\/ chain' = chain
          \/ /\ Len(chain') = Len(chain) + 1
             /\ \A i \in 1..Len(chain) : chain'[i] = chain[i]]_vars

\* all three handlers have run to completion on a chain of three records
C10_Witness ==
    /\ Len(chain) >= 3
    /\ chainStatus = StatusValid
    /\ singleCertStatus = StatusTampered
    /\ issuePending = <<>>
    /\ verifyPending = <<>>

(* ------------------------------- C11 ----------------------------------- *)

Appended(c) == c[Len(c)]
Grown == Len(chain') = Len(chain) + 1

\* C11 as stated: whatever index the block handed to addBlock was built
\* with, the record appended carries the latest record's index + 1.
C11_AppendAssignsPosition ==
    [][Grown => Appended(chain').index = Appended(chain).index + 1]_vars

\* C11 amended: addBlock keeps the index the block was constructed with and
\* assigns only previousHash and hash.  The appended record's index is the
\* latest record's index + 1 because the issue handler constructs it so in
\* the step that calls addBlock; as long as only the handler has called
\* addBlock, every record's index is its position.
C11_CallerAssignsPosition ==
    /\ [][(Edited /\ LastEdit(tamperLog').kind = "addBlock") =>
            /\ Grown
            /\ Appended(chain').index = LastEdit(tamperLog').pos
            /\ Appended(chain').previousHash = Appended(chain).hash]_vars
    /\ [][IssueHashResolved =>
            /\ Grown
            /\ Appended(chain').index = Appended(chain).index + 1]_vars
    /\ [](tamperLog = <<>> => \A i \in Positions(chain) : chain[i + 1].index = i)

\* addBlock was handed a block built with index 3 on a fresh ledger and kept
\* it; the issue handler then appended a record with index 4 at position 2
C11_Witness ==
    /\ Len(chain) = 3
    /\ Len(tamperLog) = 1
    /\ tamperLog[1].kind = "addBlock"
    /\ tamperLog[1].pos = 3
    /\ chain[2].index = 3
    /\ chain[3].index = 4
    /\ Len(issueLog) = 1

(* ------------------------------- C12 ----------------------------------- *)

\* the block that issue handler k, resumed in this step, got from the constructor
ConstructedInStep(k) == ConstructedBlock(chain, issuePending[k], now, now')

ResumedInStep(k) == issuePending' = RemoveAt(issuePending, k)

KeptAsConstructed(b) ==
    /\ Appended(chain').hash = b.hash
    /\ Appended(chain').previousHash = b.previousHash

\* C12 as stated: the hash and previousHash a record has when its
\* constructor returns are the ones it has in the chain; addBlock assigns
\* neither.
C12_FixedAtConstruction ==
    [][IssueHashResolved =>
         \E k \in 1..Len(issuePending) :
            ResumedInStep(k) /\ KeptAsConstructed(ConstructedInStep(k))]_vars

Reassigned(b) ==
    /\ b.previousHash = ""
    /\ Appended(chain').previousHash = Appended(chain).hash
    /\ Appended(chain').previousHash # b.previousHash
    /\ Appended(chain').hash # b.hash
    /\ Appended(chain').hash =
          SHA256(ToString(b.index) \o Appended(chain).hash \o b.timestamp
                 \o JSONstringify(b.data))
    /\ Appended(chain').index = b.index
    /\ Appended(chain').timestamp = b.timestamp
    /\ Appended(chain').data = b.data

\* C12 amended: a record's hash and previousHash are fixed once addBlock has
\* pushed it.  The constructor computes the hash with previousHash ''; addBlock
\* then assigns previousHash = the latest record's hash and the recomputed
\* hash to the same block before pushing it.  After the push no step of the
\* page assigns either field of any record.
C12_FixedOncePushed ==
    /\ [][\A i \in 1..Len(chain) :
             /\ i <= Len(chain')
             /\ chain'[i].hash = chain[i].hash
             /\ chain'[i].previousHash = chain[i].previousHash]_vars
    /\ [][IssueHashResolved =>
            \E k \in 1..Len(issuePending) :
               ResumedInStep(k) /\ Reassigned(ConstructedInStep(k))]_vars

\* a pushed record carries the hash addBlock assigned, and the chain has
\* been validated since
C12_Witness ==
    /\ Len(chain) = 2
    /\ chain[2].previousHash = chain[1].hash
    /\ chain[2].hash # SHA256(ToString(chain[2].index) \o chain[2].timestamp
                              \o JSONstringify(chain[2].data))
    /\ chainStatus = StatusValid
    /\ alertMsg = ""

(* ------------------------------- C13 ----------------------------------- *)

\* C13: however issue handlers overlap at their `await hashFile`, no two
\* records of the chain share an index or a previousHash, every record
\* after the genesis block carries its predecessor's hash, every record's
\* hash is the hash of its fields, and every record's index is its position.
C13_OverlappingIssues ==
    /\ \A i, j \in Positions(chain) :
          i # j => /\ chain[i + 1].index # chain[j + 1].index
                   /\ chain[i + 1].previousHash # chain[j + 1].previousHash
    /\ \A i \in Positions(chain) :
          /\ i > 0 => chain[i + 1].previousHash = chain[i].hash
          /\ chain[i + 1].hash =
                SHA256(ToString(chain[i + 1].index) \o chain[i + 1].previousHash
                       \o chain[i + 1].timestamp \o JSONstringify(chain[i + 1].data))
          /\ chain[i + 1].index = i

\* two handlers were suspended together; the one started second resumed and
\* appended first, the one started first appended after it
C13_Witness ==
    /\ issueLog = <<2, 1>>
    /\ Len(chain) = 3
    /\ issuePending = <<>>

(* ------------------------------- C14 ----------------------------------- *)

\* record i of c holds the hash of its own fields
HashMatches(c, i) ==
    c[i + 1].hash =
       SHA256(ToString(c[i + 1].index) \o c[i + 1].previousHash
              \o c[i + 1].timestamp \o JSONstringify(c[i + 1].data))

\* every record of c after the first holds the hash of its own fields and
\* its predecessor's hash
LinkedFromOne(c) ==
    \A i \in Positions(c) \ {0} :
       HashMatches(c, i) /\ c[i + 1].previousHash = c[i].hash

\* C14: isChainValid answers true exactly when every record from index 1 on
\* holds the hash of its own fields and its predecessor's hash, and the
\* verify-chain button shows that answer; the genesis block's own hash and
\* the records' index fields play no part.
C14_ValidIffLinked ==
    /\ [](IsChainValid(chain) <=> LinkedFromOne(chain))
    /\ [][VerifyChainClick =>
            chainStatus' = IF LinkedFromOne(chain)
                           THEN StatusValid ELSE StatusInvalid]_vars

\* the genesis block's index was overwritten, so that its hash is stale and
\* its index is not its position, and isChainValid still answers true
C14_Witness ==
    /\ Len(chain) >= 2
    /\ chain[1].index # 0
    /\ ~HashMatches(chain, 0)
    /\ IsChainValid(chain)
    /\ chainStatus = StatusValid
    /\ Len(tamperLog) = 1

(* ------------------------------- C15 ----------------------------------- *)

\* C15: on a chain whose records are linked and self-consistent, replacing
\* the payload of a record after the genesis block and regenerating the
\* hash of that record and the previousHash and hash of every later one
\* leaves a chain isChainValid accepts, though its payload is not the one
\* issued.
C15_ForgedChainAccepted ==
    [][(/\ Edited
        /\ LastEdit(tamperLog').kind = "forge"
        /\ LinkedFromOne(chain))
       => LET k == LastEdit(tamperLog').pos
          IN  /\ IsChainValid(chain')
              /\ chain'[k + 1].data # chain[k + 1].data
              /\ chain'[k + 1].hash # chain[k + 1].hash
              /\ Len(chain') = Len(chain)]_vars

\* chain[1] of three records was forged before any validation, and the
\* button has since reported the chain valid
C15_Witness ==
    /\ Len(chain) = 3
    /\ Len(tamperLog) = 1
    /\ tamperLog[1] = [kind |-> "forge", pos |-> 1, wasValid |-> TRUE,
                       statusThen |-> ""]
    /\ chain[2].data.student = "Eve"
    /\ chainStatus = StatusValid

(* ------------------------------- C16 ----------------------------------- *)

\* C16: on a chain whose records are linked and self-consistent, exchanging
\* two records after the genesis block, their fields untouched, makes
\* isChainValid answer false.
C16_SwapDetected ==
    [][(/\ Edited
        /\ LastEdit(tamperLog').kind = "swap"
        /\ LinkedFromOne(chain))
       => ~IsChainValid(chain')]_vars

\* chain[1] and chain[2] were exchanged and the button has reported the
\* chain invalid
C16_Witness ==
    /\ Len(chain) = 3
    /\ Len(tamperLog) = 1
    /\ tamperLog[1].kind = "swap"
    /\ tamperLog[1].wasValid
    /\ chain[2].index = 2
    /\ chain[3].index = 1
    /\ chainStatus = StatusInvalid

(* ------------------------------- C17 ----------------------------------- *)

\* C17: on a chain whose records are linked and self-consistent, dropping
\* any number of trailing records, down to the genesis block alone, leaves
\* a chain isChainValid accepts.
C17_TruncationAccepted ==
    [][(/\ Edited
        /\ LastEdit(tamperLog').kind = "truncate"
        /\ LinkedFromOne(chain))
       => /\ IsChainValid(chain')
          /\ Len(chain') = LastEdit(tamperLog').pos
          /\ Len(chain') < Len(chain)
          /\ \A n \in 1..Len(chain) : IsChainValid(SubSeq(chain, 1, n))]_vars

\* a chain was cut back to two records before any validation, issuing had
\* stopped, and the button has since reported the chain valid
C17_Witness ==
    /\ Len(chain) = 2
    /\ Len(tamperLog) = 1
    /\ tamperLog[1] = [kind |-> "truncate", pos |-> 2, wasValid |-> TRUE,
                       statusThen |-> ""]
    /\ Len(issueLog) = 2
    /\ chainStatus = StatusValid

(* ------------------------------- C18 ----------------------------------- *)

\* the fileHash of the payload at position p (undefined on a payload
\* without one)
FingerprintAt(c, p) ==
    IF "fileHash" \in DOMAIN c[p + 1].data THEN c[p + 1].data.fileHash
    ELSE Undefined

\* C18: the verify handler checks the block number against chain.length
\* before `await hashFile` and reads chain[blockNumber] after it. Whatever
\* issue handlers complete in between, a handler awaiting its file hash
\* holds a block number that passed the check and is still inside the
\* chain, every step leaves the record at that position as it was, and the
\* resumed handler reads that record: it shows a verdict against its
\* fileHash and never fails on a missing record.
C18_CheckedRecordStillThere ==
    /\ [](\A k \in 1..Len(verifyPending) :
             /\ 0 < verifyPending[k].blockNumber
             /\ verifyPending[k].blockNumber < verifyPending[k].lengthChecked
             /\ verifyPending[k].lengthChecked <= Len(chain))
    /\ [][\A k \in 1..Len(verifyPending) :
             LET p == verifyPending[k].blockNumber
             IN  /\ p < Len(chain')
                 /\ chain'[p + 1] = chain[p + 1]]_vars
    /\ [][VerifyCertHashResolved =>
            \E k \in 1..Len(verifyPending) :
               LET p == verifyPending[k].blockNumber
               IN  /\ verifyPending' = RemoveAt(verifyPending, k)
                   /\ p < Len(chain)
                   /\ alertMsg' = alertMsg
                   /\ singleCertStatus' =
                         IF SHA256(verifyPending[k].pdfToVerify)
                               = FingerprintAt(chain, p)
                         THEN StatusAuthentic ELSE StatusTampered]_vars

\* a verify handler checked block 1 when the chain held two records and is
\* still awaiting its file hash now that an issue handler has added a third
C18_Witness ==
    /\ Len(verifyPending) = 1
    /\ verifyPending[1].blockNumber = 1
    /\ verifyPending[1].lengthChecked = 2
    /\ Len(chain) = 3
    /\ Len(issueLog) = 2

(* ------------------------------- C19 ----------------------------------- *)

\* C19: however issue handlers overlap, the chain holds the genesis block
\* and one record for each issue handler that resumed with its file hash;
\* the chain changes in no other step; a resumed handler leaves the
\* handlers still waiting, whatever its rank among them, and puts one
\* record, carrying its own form and the hash of its own file, after the
\* records already there. So records stand in the order the file hashes
\* arrived, not the order of the clicks.
C19_OneRecordPerIssue ==
    /\ [](Len(chain) = 1 + Len(issueLog))
    /\ [][chain' # chain => IssueHashResolved]_vars
    /\ [][IssueHashResolved =>
            \E k \in 1..Len(issuePending) :
               /\ ResumedInStep(k)
               /\ issueLog' = Append(issueLog, k)
               /\ SubSeq(chain', 1, Len(chain)) = chain
               /\ Len(chain') = Len(chain) + 1
               /\ chain'[Len(chain')].data.fileHash
                     = SHA256(issuePending[k].pdfFile)
               /\ chain'[Len(chain')].data.student
                     = issuePending[k].studentName]_vars

\* the file of record 1 is the one whose handler was started second and the
\* file of record 2 the one whose handler was started first; both handlers
\* are done
C19_Witness ==
    /\ issueLog = <<2, 1>>
    /\ issuePending = <<>>
    /\ Len(chain) = 3
    /\ chain[2].data.fileHash = SHA256("pdfB")
    /\ chain[3].data.fileHash = SHA256("pdfA")

====
